---- MODULE Spec2Model ----
(***************************************************************************)
(* Model of src/wbtc_airdrop_bot.py: the WBTCAirdropBot cycle pipeline     *)
(* (get_token_holders -> filter_eligible_holders ->                        *)
(* calculate_wbtc_distribution -> transfer loop) and the scheduler         *)
(* run_continuous_airdrop with stop().                                     *)
(*                                                                         *)
(* Units.  Token amounts are counted in units of 500 tokens and WBTC in    *)
(* units of 0.01 WBTC, so the spec's scenario balances 1000, 3000 and 500  *)
(* with min 1000 and budget 0.2 read 2, 6 and 1 with min 2 and budget 20.  *)
(* Python floats are modelled as exact rationals <<num, den>> in lowest    *)
(* terms with den > 0; floating-point rounding is not modelled.            *)
(* A Python dict is a sequence of <<key, value>> pairs with distinct keys, *)
(* in insertion order (dicts iterate in insertion order).                  *)
(***************************************************************************)
EXTENDS Integers, Sequences, FiniteSets, TLC

\* ---------------------------------------------------------------- bounds
MaxRecords == 2
MaxCycles == 2

\* ------------------------------------------------------- input alphabets
\* owner addresses that occur in the RPC response
Wallets == {"A", "B"}
NoOwner == "missing"
\* a uiAmount field is <<n>> for the JSON number n and Null for JSON null
Null == <<>>
\* uiAmount values a ledger node reports (non-negative), in 500-token units
LedgerAmounts == {0, 1, 2, 6}
\* uiAmount values of an endpoint that does not honour the ledger's range
DegenerateAmounts == {-1, 0, 1}
\* <<min_token_holdings, max_token_holdings>> the operator may enter: the
\* defaults 1000 .. 10,000,000
HoldingBounds == {<<2, 20000>>}
\* Inputs of the pipeline functions when they are called on their own: owner
\* addresses, uiAmount values, <<min, max>> pairs (one with min > max) and
\* total_wbtc_per_cycle values
FunctionWallets == {"A", "B", "C"}
FunctionAmounts == {-1, 0, 1, 2, 6}
FunctionBounds == {<<0, 0>>, <<0, 2>>, <<2, 2>>, <<2, 6>>, <<6, 6>>, <<6, 2>>}
Budgets == {3, 20}

VARIABLES
    min_token_holdings,     \* config.min_token_holdings
    max_token_holdings,     \* config.max_token_holdings
    total_wbtc_per_cycle,   \* config.total_wbtc_per_cycle (0.01 WBTC units)
    raw_amounts,            \* the amounts the RPC endpoint may report
    private_key,            \* the key text entered in main()
    balance_sol,            \* the sender's SOL from client.get_balance: <<n>>, Null if it raises
    wbtc_balance,           \* what get_token_balance reports for the sender
    account_records,        \* response['result']['value'] handed to the pipeline functions
    is_running,             \* self.is_running
    cycle_count,            \* self.cycle_count
    total_wbtc_distributed, \* self.total_wbtc_distributed (rational)
    pc,                     \* position of the run_continuous_airdrop coroutine
    holders,                \* local of execute_airdrop_cycle
    total_supply,           \* local of execute_airdrop_cycle
    eligible_holders,       \* local of execute_airdrop_cycle
    distribution,           \* local of execute_airdrop_cycle
    idx,                    \* loop position i of the transfer loop (1-based)
    successful_sends,       \* local of execute_airdrop_cycle
    failed_sends,           \* local of execute_airdrop_cycle
    total_wbtc_sent,        \* local of execute_airdrop_cycle (rational)
    result,                 \* the dict returned by execute_airdrop_cycle
    summary,                \* the FINAL SUMMARY log block, <<>> until emitted
    in_flight,              \* number of send_wbtc_airdrop calls not yet returned
    calls,                  \* history: pipeline calls made in the current cycle
    outcomes,               \* history: success flags returned in the current cycle
    plan,                   \* history: the distribution list the current cycle calculated
    base_total,             \* history: total_wbtc_distributed when the current cycle began
    prev_result,            \* history: how the previous cycle ended, until the scan
    stop_phase,             \* history: where stop() cleared the flag
    stop_count,             \* history: cycle_count when stop() cleared the flag
    completed,              \* history: number of cycles that returned a dict
    sent_sum,               \* history: sum of total_wbtc_sent over the returned dicts
    transferred,            \* history: sum of wbtc_amount over the transfers that succeeded
    exit_reason             \* history: why the while loop was left

config == <<min_token_holdings, max_token_holdings, total_wbtc_per_cycle, raw_amounts,
            private_key, balance_sol, wbtc_balance, account_records>>
bot == <<is_running, cycle_count, total_wbtc_distributed>>
locals == <<holders, total_supply, eligible_holders, distribution, idx, successful_sends,
            failed_sends, total_wbtc_sent>>
history == <<in_flight, calls, outcomes, plan, base_total, prev_result, stop_phase,
             stop_count, completed, sent_sum, transferred, exit_reason>>
vars == <<config, bot, pc, locals, result, summary, history>>

\* ------------------------------------------------------------- rationals
Abs(n) == IF n < 0 THEN -n ELSE n

RECURSIVE GCD(_, _)
GCD(a, b) == IF b = 0 THEN a ELSE GCD(b, a % b)

\* n/d in lowest terms with positive denominator (d # 0)
Rat(n, d) ==
    LET g == GCD(Abs(n), Abs(d))
        s == IF d < 0 THEN -1 ELSE 1
    IN  <<(s * n) \div g, (s * d) \div g>>

Zero == <<0, 1>>
RatAdd(a, b) == Rat(a[1] * b[2] + b[1] * a[2], a[2] * b[2])
RatLeq(a, b) == a[1] * b[2] <= b[1] * a[2]
RatLt(a, b) == a[1] * b[2] < b[1] * a[2]

\* ----------------------------------------------------------- dict helpers
Keys(d) == {d[i][1] : i \in 1..Len(d)}

RECURSIVE SumValues(_)
SumValues(d) == IF d = <<>> THEN 0 ELSE d[1][2] + SumValues(Tail(d))

\* ------------------------------------------------- get_token_holders loop
\* One raw account record: the owner field (or NoOwner when the key is
\* absent) and the uiAmount field (on Null, float() raises TypeError)
Records(amounts) ==
    {[owner |-> w, amount |-> a] : w \in Wallets, a \in {<<n>> : n \in amounts} \cup {Null}}
        \cup {[owner |-> NoOwner, amount |-> <<1>>]}

FunctionRecords ==
    {[owner |-> w, amount |-> a] :
        w \in FunctionWallets, a \in {<<n>> : n \in FunctionAmounts} \cup {Null}}
        \cup {[owner |-> NoOwner, amount |-> <<1>>]}

\* A record raises KeyError/TypeError/ValueError inside the try block
Raises(rec) == rec.owner = NoOwner \/ rec.amount = Null

\* float(uiAmount) of a record that does not raise
TokenAmount(rec) == rec.amount[1]

\* A record the loop skips: it raised, or its amount is zero
Skipped(rec) == Raises(rec) \/ TokenAmount(rec) = 0

\* Variant: the balance is assigned, not added ("=" for "+=")
AddBalance_overwrites(h, owner, amount) ==
    IF owner \in Keys(h)
    THEN [i \in 1..Len(h) |-> IF h[i][1] = owner THEN <<owner, amount>> ELSE h[i]]
    ELSE Append(h, <<owner, amount>>)

\* holders[owner] += token_amount, or a new key appended at the end
AddBalance(h, owner, amount) ==
    IF owner \in Keys(h)
    THEN [i \in 1..Len(h) |-> IF h[i][1] = owner THEN <<owner, h[i][2] + amount>> ELSE h[i]]
    ELSE Append(h, <<owner, amount>>)

\* The body of "for account in token_accounts", applied to the accumulator
ProcessAccount(acc, rec) ==
    IF Skipped(rec)
    THEN acc
    ELSE [holders |-> AddBalance(acc.holders, rec.owner, TokenAmount(rec)),
          total_supply |-> acc.total_supply + TokenAmount(rec)]

RECURSIVE ProcessAccounts(_, _)
ProcessAccounts(acc, recs) ==
    IF recs = <<>> THEN acc
    ELSE ProcessAccounts(ProcessAccount(acc, Head(recs)), Tail(recs))

\* get_token_holders on a response that carries a result: (holders, total_supply)
get_token_holders(token_accounts) ==
    ProcessAccounts([holders |-> <<>>, total_supply |-> 0], token_accounts)

\* ------------------------------------------------ filter_eligible_holders
\* Variant: the bounds are exclusive
Eligible_exclusive(amount, lo, hi) == lo < amount /\ amount < hi

\* "min_token_holdings <= amount <= max_token_holdings"
Eligible(amount, lo, hi) == lo <= amount /\ amount <= hi

filter_eligible_holders(h, lo, hi) ==
    SelectSeq(h, LAMBDA p : Eligible(p[2], lo, hi))

excluded_small(h, lo) == Cardinality({i \in 1..Len(h) : h[i][2] < lo})
excluded_large(h, hi) == Cardinality({i \in 1..Len(h) : h[i][2] > hi})

\* -------------------------------------------- calculate_wbtc_distribution
\* Variant: floor division ("//" for "/")
Entry_floor_division(p, total, budget) ==
    [wallet |-> p[1],
     token_amount |-> p[2],
     percentage |-> Rat((p[2] \div total) * 100, 1),
     wbtc_amount |-> Rat((p[2] \div total) * budget, 1)]

\* One entry of the list built by the for loop (total # 0)
Entry(p, total, budget) ==
    [wallet |-> p[1],
     token_amount |-> p[2],
     percentage |-> Rat(p[2] * 100, total),
     wbtc_amount |-> Rat(p[2] * budget, total)]

\* Variant: an entry goes before the entries of equal token_amount
RECURSIVE InsertDesc_unstable(_, _)
InsertDesc_unstable(sorted, e) ==
    IF sorted = <<>> THEN <<e>>
    ELSE IF Head(sorted).token_amount > e.token_amount
         THEN <<Head(sorted)>> \o InsertDesc_unstable(Tail(sorted), e)
         ELSE <<e>> \o sorted

\* Position of e in a list already sorted descending: after every entry whose
\* token_amount is >= e's, which keeps equal entries in encounter order
RECURSIVE InsertDesc(_, _)
InsertDesc(sorted, e) ==
    IF sorted = <<>> THEN <<e>>
    ELSE IF Head(sorted).token_amount >= e.token_amount
         THEN <<Head(sorted)>> \o InsertDesc(Tail(sorted), e)
         ELSE <<e>> \o sorted

\* distribution.sort(key=token_amount, reverse=True): stable, descending
RECURSIVE SortDesc(_, _)
SortDesc(sorted, rest) ==
    IF rest = <<>> THEN sorted
    ELSE SortDesc(InsertDesc(sorted, Head(rest)), Tail(rest))

\* The division by total_eligible_tokens raises ZeroDivisionError when an
\* entry is computed and the total is zero
DivisionRaises(eligible) == eligible # <<>> /\ SumValues(eligible) = 0

calculate_wbtc_distribution(eligible, budget) ==
    LET total == SumValues(eligible)
    IN  SortDesc(<<>>, [i \in 1..Len(eligible) |-> Entry(eligible[i], total, budget)])

RECURSIVE SumAllocated(_)
SumAllocated(dist) ==
    IF dist = <<>> THEN Zero
    ELSE RatAdd(Head(dist).wbtc_amount, SumAllocated(Tail(dist)))

\* ------------------------------------------------------ send_wbtc_airdrop
\* What the ledger client does with one transfer: the transaction is sent
\* ("sent"), create_wbtc_transfer_transaction returns None ("no_transaction"),
\* send_transaction returns an empty value ("rejected"), or the client raises
\* an Exception ("exception")
ClientOutcomes == {"sent", "no_transaction", "rejected", "exception"}

\* Variant: the try/except of send_wbtc_airdrop is missing, a client
\* exception leaves the call
send_wbtc_airdrop_raising(outcome) ==
    [success |-> outcome = "sent", raised |-> outcome = "exception"]

\* send_wbtc_airdrop turns every client outcome into a returned
\* (success, text) pair; its own try/except lets no Exception out
send_wbtc_airdrop(outcome) ==
    [success |-> outcome = "sent", raised |-> FALSE]

\* ------------------------------------------------------ initialize_sender
\* The key texts main() may read: one that decodes to a keypair, one that
\* makes the decoding raise, and the empty input
PrivateKeys == {"valid", "undecodable", ""}
\* get_balance results: it raises, or reports 0 or 1 SOL
SolBalances == {Null, <<0>>, <<1>>}
\* get_token_balance results around the budget of 20
WbtcBalances == {19, 20}

\* Variant: any positive WBTC balance is accepted
check_sender_balance_any_wbtc(sol, wbtc, budget) ==
    sol # Null /\ sol[1] > 0 /\ wbtc > 0

\* check_sender_balance: False when get_balance raises, else
\* "balance_sol > 0 and wbtc_balance >= total_wbtc_per_cycle"
check_sender_balance(sol, wbtc, budget) ==
    sol # Null /\ sol[1] > 0 /\ wbtc >= budget

\* initialize_sender: False when the decoding raises, else what
\* check_sender_balance returns
initialize_sender(key, sol, wbtc, budget) ==
    key = "valid" /\ check_sender_balance(sol, wbtc, budget)

\* ---------------------------------------------------- execute_airdrop_cycle
\* "except Exception" of execute_airdrop_cycle: catches every Exception
\* subclass, not KeyboardInterrupt or CancelledError (BaseException)
Exceptions == {"ValueError", "ZeroDivisionError", "Exception"}
Interruptions == {"KeyboardInterrupt", "CancelledError"}
\* Variant: the handler is "except ValueError"
CycleCatches_value_error_only(exc) == exc = "ValueError"
\* Variant: the handler is "except ArithmeticError"
CycleCatches_arithmetic_only(exc) == exc = "ZeroDivisionError"
CycleCatches(exc) == exc \in Exceptions

\* Variants: the emptiness check is missing
NoHolders_unchecked(h) == FALSE
NoEligibleHolders_unchecked(e) == FALSE
\* "if not holders" / "if not eligible_holders"
NoHolders(h) == h = <<>>
NoEligibleHolders(e) == e = <<>>

\* The returned dicts; a key the dict does not carry has its zero value here
NoResult ==
    [success |-> FALSE, error |-> "no cycle yet", cycle |-> 0, successful |-> 0,
     failed |-> 0, total_wbtc_sent |-> Zero]
FailureResult(err) ==
    [success |-> FALSE, error |-> err, cycle |-> 0, successful |-> 0,
     failed |-> 0, total_wbtc_sent |-> Zero]
\* Variant: the cycle counts as successful only if some transfer succeeded
CycleSuccess_some_sent(successful, failed) == successful > 0

\* The "success" value of the dict returned after the transfer loop
CycleSuccess(successful, failed) == TRUE
SuccessResult(cycle, successful, failed, sent) ==
    [success |-> CycleSuccess(successful, failed), error |-> "", cycle |-> cycle,
     successful |-> successful, failed |-> failed, total_wbtc_sent |-> sent]

\* Variant: the amount is added to the total before the outcome is looked at
CountAttempt_adds_always(c, entry, success) ==
    [successful |-> IF success THEN c.successful + 1 ELSE c.successful,
     failed |-> IF success THEN c.failed ELSE c.failed + 1,
     sent |-> RatAdd(c.sent, entry.wbtc_amount)]

\* The if/else inside the transfer loop: the counters after one attempt
CountAttempt(c, entry, success) ==
    IF success
    THEN [successful |-> c.successful + 1, failed |-> c.failed,
          sent |-> RatAdd(c.sent, entry.wbtc_amount)]
    ELSE [successful |-> c.successful, failed |-> c.failed + 1, sent |-> c.sent]

\* Variant: the cycle's total replaces the cumulative total ("=" for "+=")
FoldTotal_overwrites(total, sent) == sent

\* "self.total_wbtc_distributed += total_wbtc_sent"
FoldTotal(total, sent) == RatAdd(total, sent)

\* Variant: the executor retries an entry whose transfer failed
NextEntry_retry(i, last_success) == IF last_success THEN i + 1 ELSE i

\* The for loop moves to the following entry whatever the last attempt returned
NextEntry(i, last_success) == i + 1

\* Variant: the transfer loop also tests the running flag
MoreRecipients_while_running(i, dist, running) == i < Len(dist) /\ running

\* "for i, recipient in enumerate(distribution, 1)": is there a next entry
\* after entry i; the running flag is not consulted
MoreRecipients(i, dist, running) == i < Len(dist)

\* Variants: the counter is incremented at both ends of the cycle; the
\* increment is missing
NextCycleNumber_by_two(n) == n + 2
NextCycleNumber_unchanged(n) == n

\* "self.cycle_count += 1", the first statement of execute_airdrop_cycle
NextCycleNumber(n) == n + 1

\* ------------------------------------------------- run_continuous_airdrop
\* Variant: "while True"
LoopCondition_always(running) == TRUE

\* "while self.is_running"
LoopCondition(running) == running

\* Variant: the loop is left after a failed cycle
AfterCycle_exit_on_failure(res) == IF res.success THEN "sleep" ELSE "stopped"

\* What the scheduler does with a cycle's result: both branches only log,
\* then the loop sleeps
AfterCycle(res) == "sleep"

NoSummary == [emitted |-> 0, cycles |-> 0, total |-> Zero, average |-> Zero]
Max(a, b) == IF a >= b THEN a ELSE b
\* total_wbtc_distributed / max(cycle_count, 1)
Average(total, cycles) == Rat(total[1], total[2] * Max(cycles, 1))

\* The locals of execute_airdrop_cycle exist while the call is active; once
\* it has returned or raised they are gone
NoLocals ==
    /\ holders' = <<>>
    /\ total_supply' = 0
    /\ eligible_holders' = <<>>
    /\ distribution' = <<>>
    /\ idx' = 0
    /\ successful_sends' = 0
    /\ failed_sends' = 0
    /\ total_wbtc_sent' = Zero

\* The finally block: clears the flag and logs the FINAL SUMMARY
Finally(reason) ==
    /\ is_running' = FALSE
    /\ summary' = [emitted |-> summary.emitted + 1, cycles |-> cycle_count,
                   total |-> total_wbtc_distributed,
                   average |-> Average(total_wbtc_distributed, cycle_count)]
    /\ pc' = "stopped"
    /\ exit_reason' = IF reason \in Interruptions THEN "interrupt" ELSE reason

\* execute_airdrop_cycle returns res to the scheduler loop
Return(res) ==
    /\ result' = res
    /\ completed' = completed + 1
    /\ sent_sum' = RatAdd(sent_sum, res.total_wbtc_sent)
    /\ pc' = AfterCycle(res)
    /\ NoLocals
    /\ UNCHANGED <<is_running, summary, exit_reason>>

\* An exception raised inside the try block of execute_airdrop_cycle: caught
\* there and turned into a failure dict, or it leaves the cycle and the
\* while loop and reaches the finally block
RaiseInCycle(exc) ==
    IF CycleCatches(exc)
    THEN Return(FailureResult(exc))
    ELSE /\ Finally(exc)
         /\ NoLocals
         /\ UNCHANGED <<result, completed, sent_sum>>

\* ------------------------------------------------------------------ Init
InitBot ==
    /\ is_running = FALSE
    /\ cycle_count = 0
    /\ total_wbtc_distributed = Zero
    /\ holders = <<>>
    /\ total_supply = 0
    /\ eligible_holders = <<>>
    /\ distribution = <<>>
    /\ idx = 0
    /\ successful_sends = 0
    /\ failed_sends = 0
    /\ total_wbtc_sent = Zero
    /\ result = NoResult
    /\ summary = NoSummary
    /\ in_flight = 0
    /\ calls = <<>>
    /\ outcomes = <<>>
    /\ plan = <<>>
    /\ base_total = Zero
    /\ prev_result = "none"
    /\ stop_phase = "none"
    /\ stop_count = 0
    /\ completed = 0
    /\ sent_sum = Zero
    /\ transferred = Zero
    /\ exit_reason = "none"

\* The bot constructed with the default budget, before run_continuous_airdrop
InitCommon ==
    /\ total_wbtc_per_cycle = 20
    /\ pc = "idle"
    /\ InitBot

\* main() reached run_continuous_airdrop: the key decoded and the sender
\* holds some SOL and exactly the WBTC of one cycle
SenderReady ==
    /\ private_key = "valid"
    /\ balance_sol = <<1>>
    /\ wbtc_balance = 20

\* The endpoint is a ledger node: amounts are non-negative
Init ==
    /\ InitCommon
    /\ raw_amounts = LedgerAmounts
    /\ SenderReady
    /\ account_records = <<>>
    /\ \E b \in HoldingBounds :
         /\ min_token_holdings = b[1]
         /\ max_token_holdings = b[2]

\* The endpoint may report a negative amount and the operator entered a
\* minimum of zero, so a wallet whose records cancel out is eligible
InitDegenerate ==
    /\ InitCommon
    /\ raw_amounts = DegenerateAmounts
    /\ SenderReady
    /\ account_records = <<>>
    /\ min_token_holdings = 0
    /\ max_token_holdings = 20000

\* ---------------------------------------------------------------- actions
\* run_continuous_airdrop up to the while loop
Start ==
    /\ pc = "idle"
    /\ is_running' = TRUE
    /\ pc' = "loop"
    /\ UNCHANGED <<config, cycle_count, total_wbtc_distributed, locals, result,
                   summary, history>>

\* The loop test succeeds and execute_airdrop_cycle starts: cycle_count += 1.
\* The scheduler's result still holds the previous cycle's dict, which nothing
\* reads any more: it is dropped here
BeginCycle ==
    /\ pc = "loop"
    /\ LoopCondition(is_running)
    /\ cycle_count < MaxCycles
    /\ cycle_count' = NextCycleNumber(cycle_count)
    /\ pc' = "scan"
    /\ result' = NoResult
    /\ calls' = <<>>
    /\ outcomes' = <<>>
    /\ plan' = <<>>
    /\ base_total' = total_wbtc_distributed
    /\ prev_result' = IF result = NoResult THEN "none"
                       ELSE IF result.success THEN "success" ELSE "failure"
    /\ UNCHANGED <<config, is_running, total_wbtc_distributed, locals, summary,
                   in_flight, stop_phase, stop_count, transferred, completed, sent_sum,
                   exit_reason>>

\* The loop test fails: the finally block runs
ExitLoop ==
    /\ pc = "loop"
    /\ ~LoopCondition(is_running)
    /\ Finally("stop")
    /\ UNCHANGED <<config, cycle_count, total_wbtc_distributed, locals, result,
                   in_flight, calls, outcomes, plan, base_total, prev_result, stop_phase,
                   stop_count, transferred, completed, sent_sum>>

\* Step 1: get_token_holders and the unpacking of what it returns.  Without a
\* usable RPC response it returns a bare {} and the two-name unpacking raises
\* ValueError
Scan ==
    /\ pc = "scan"
    /\ calls' = Append(calls, <<"get_token_holders", "">>)
    /\ prev_result' = "none"
    /\ UNCHANGED <<outcomes, plan, base_total>>
    /\ \/ RaiseInCycle("ValueError")
       \/ \E n \in 0..MaxRecords : \E token_accounts \in [1..n -> Records(raw_amounts)] :
            LET r == get_token_holders(token_accounts)
            IN  IF NoHolders(r.holders)
                THEN Return(FailureResult("No token holders found"))
                ELSE /\ holders' = r.holders
                     /\ total_supply' = r.total_supply
                     /\ pc' = "filter"
                     /\ UNCHANGED <<eligible_holders, distribution, idx, successful_sends,
                                    failed_sends, total_wbtc_sent, is_running, result,
                                    summary, completed, sent_sum, exit_reason>>
    /\ UNCHANGED <<config, cycle_count, total_wbtc_distributed, in_flight, stop_phase,
                   stop_count, transferred>>

\* Step 2: filter_eligible_holders
Filter ==
    /\ pc = "filter"
    /\ calls' = Append(calls, <<"filter_eligible_holders", "">>)
    /\ UNCHANGED plan
    /\ LET e == filter_eligible_holders(holders, min_token_holdings, max_token_holdings)
       IN  IF NoEligibleHolders(e)
           THEN Return(FailureResult("No eligible holders found"))
           ELSE /\ eligible_holders' = e
                /\ pc' = "calculate"
                /\ UNCHANGED <<holders, total_supply, distribution, idx, successful_sends,
                               failed_sends, total_wbtc_sent, is_running, result, summary,
                               completed, sent_sum, exit_reason>>
    /\ UNCHANGED <<config, cycle_count, total_wbtc_distributed, in_flight, outcomes,
                   base_total, prev_result, stop_phase, stop_count, transferred>>

\* Step 3: calculate_wbtc_distribution, then the transfer loop is entered
Calculate ==
    /\ pc = "calculate"
    /\ calls' = Append(calls, <<"calculate_wbtc_distribution", "">>)
    /\ IF DivisionRaises(eligible_holders)
       THEN /\ RaiseInCycle("ZeroDivisionError")
            /\ UNCHANGED plan
       ELSE /\ distribution' =
                  calculate_wbtc_distribution(eligible_holders, total_wbtc_per_cycle)
            /\ plan' = distribution'
            /\ idx' = 1
            /\ pc' = IF distribution' = <<>> THEN "cycle_summary" ELSE "send"
            /\ UNCHANGED <<holders, total_supply, eligible_holders, successful_sends,
                           failed_sends, total_wbtc_sent, is_running, result, summary,
                           completed, sent_sum, exit_reason>>
    /\ UNCHANGED <<config, cycle_count, total_wbtc_distributed, in_flight, outcomes,
                   base_total, prev_result, stop_phase, stop_count, transferred>>

\* Step 4, one iteration: send_wbtc_airdrop is called for entry idx
SendBegin ==
    /\ pc = "send"
    /\ in_flight' = in_flight + 1
    /\ calls' = Append(calls, <<"send_wbtc_airdrop", distribution[idx].wallet>>)
    /\ pc' = "sending"
    /\ UNCHANGED <<config, bot, locals, result, summary, outcomes, plan, base_total,
                   prev_result, stop_phase, stop_count, transferred, completed, sent_sum,
                   exit_reason>>

\* send_wbtc_airdrop returns and the counters are updated
SendReturn ==
    /\ pc = "sending"
    /\ in_flight' = in_flight - 1
    /\ \E outcome \in ClientOutcomes :
         LET r == send_wbtc_airdrop(outcome)
             c == CountAttempt([successful |-> successful_sends, failed |-> failed_sends,
                                sent |-> total_wbtc_sent], distribution[idx], r.success)
         IN  IF r.raised
             THEN /\ RaiseInCycle("Exception")
                  /\ UNCHANGED <<outcomes, transferred>>
             ELSE /\ successful_sends' = c.successful
                  /\ failed_sends' = c.failed
                  /\ total_wbtc_sent' = c.sent
                  /\ outcomes' = Append(outcomes, r.success)
                  /\ transferred' = IF r.success
                                     THEN RatAdd(transferred, distribution[idx].wbtc_amount)
                                     ELSE transferred
                  /\ pc' = "pace"
                  /\ UNCHANGED <<holders, total_supply, eligible_holders, distribution,
                                 idx, is_running, result, summary, completed, sent_sum,
                                 exit_reason>>
    /\ UNCHANGED <<config, cycle_count, total_wbtc_distributed, calls, plan, base_total,
                   prev_result, stop_phase, stop_count>>

\* asyncio.sleep(0.5) returns: the for loop takes the next entry or ends
Pace ==
    /\ pc = "pace"
    /\ IF MoreRecipients(idx, distribution, is_running)
       THEN /\ idx' = NextEntry(idx, outcomes[Len(outcomes)])
            /\ pc' = "send"
       ELSE /\ pc' = "cycle_summary"
            /\ UNCHANGED idx
    /\ UNCHANGED <<config, bot, holders, total_supply, eligible_holders, distribution,
                   successful_sends, failed_sends, total_wbtc_sent, result,
                   summary, history>>

\* The cycle summary: total_wbtc_sent is folded into total_wbtc_distributed
\* and the success dict is returned
CycleSummary ==
    /\ pc = "cycle_summary"
    /\ total_wbtc_distributed' = FoldTotal(total_wbtc_distributed, total_wbtc_sent)
    /\ Return(SuccessResult(cycle_count, successful_sends, failed_sends, total_wbtc_sent))
    /\ UNCHANGED <<config, cycle_count, in_flight, calls, outcomes, plan, base_total,
                   prev_result, stop_phase, stop_count, transferred>>

\* asyncio.sleep(cycle_interval) returns: back to the loop test
Sleep ==
    /\ pc = "sleep"
    /\ pc' = "loop"
    /\ UNCHANGED <<config, bot, locals, result, summary, history>>

\* The coroutine is inside execute_airdrop_cycle
InCycle == pc \in {"scan", "filter", "calculate", "send", "sending", "pace", "cycle_summary"}

\* The transfer loop is running and not every entry's attempt has returned
EntriesRemain == pc \in {"send", "sending", "pace"} /\ Len(outcomes) < Len(distribution)

\* stop(), called from outside the coroutine while the flag is set (a call
\* with the flag already clear changes nothing)
Stop ==
    /\ is_running
    /\ is_running' = FALSE
    /\ stop_count' = cycle_count
    /\ stop_phase' = IF EntriesRemain THEN "transfer"
                      ELSE IF InCycle THEN "cycle" ELSE "between"
    /\ UNCHANGED <<config, cycle_count, total_wbtc_distributed, pc, locals, result,
                   summary, in_flight, calls, outcomes, plan, base_total,
                   prev_result, completed, sent_sum, transferred, exit_reason>>

\* KeyboardInterrupt or task cancellation delivered while the coroutine waits
\* in the RPC request, in a transfer or in one of the two sleeps; neither is
\* an Exception, so it reaches the finally block
Interrupt ==
    /\ pc \in {"scan", "sending", "pace", "sleep"}
    /\ \E exc \in Interruptions : RaiseInCycle(exc)
    /\ in_flight' = 0
    /\ UNCHANGED <<config, cycle_count, total_wbtc_distributed, calls, outcomes,
                   plan, base_total, prev_result, stop_phase, stop_count, transferred>>

SchedulerStep ==
    \/ Start \/ BeginCycle \/ ExitLoop \/ Scan \/ Filter \/ Calculate
    \/ SendBegin \/ SendReturn \/ Pace \/ CycleSummary \/ Sleep

Next == SchedulerStep \/ Stop \/ Interrupt

Spec == Init /\ [][Next]_vars

\* The same program against an endpoint that reports degenerate amounts
SpecDegenerate == InitDegenerate /\ [][Next]_vars

\* Every call and every sleep of the coroutine eventually returns
FairSpec == Spec /\ WF_vars(SchedulerStep)
FairSpecDegenerate == SpecDegenerate /\ WF_vars(SchedulerStep)

\* ------------------------------------------------------------------ main
\* main() has built the config and the bot and reads the private key
InitMain ==
    /\ InitBot
    /\ total_wbtc_per_cycle = 20
    /\ pc = "main"
    /\ raw_amounts = LedgerAmounts
    /\ account_records = <<>>
    /\ private_key \in PrivateKeys
    /\ balance_sol \in SolBalances
    /\ wbtc_balance \in WbtcBalances
    /\ \E b \in HoldingBounds :
         /\ min_token_holdings = b[1]
         /\ max_token_holdings = b[2]

\* "if not private_key: return", then "if not bot.initialize_sender(...): return"
SenderSetup ==
    /\ pc = "main"
    /\ pc' = IF private_key # ""
                 /\ initialize_sender(private_key, balance_sol, wbtc_balance,
                                       total_wbtc_per_cycle)
              THEN "confirm" ELSE "aborted"
    /\ UNCHANGED <<config, bot, locals, result, summary, history>>

\* "Proceed with WBTC airdrop bot? (y/N)": anything but y returns from main
Confirm ==
    /\ pc = "confirm"
    /\ \E answer \in {"y", "n"} : pc' = IF answer = "y" THEN "idle" ELSE "cancelled"
    /\ UNCHANGED <<config, bot, locals, result, summary, history>>

NextMain == SenderSetup \/ Confirm \/ Next

\* The program from the start of the sender setup in main()
SpecMain == InitMain /\ [][NextMain]_vars

\* ---------------------------------------- the pipeline functions, called alone
\* A constructed bot, a configuration and an RPC response; the three pipeline
\* functions are then called one after the other on what the previous returned
InitFunctions ==
    /\ InitBot
    /\ SenderReady
    /\ raw_amounts = FunctionAmounts
    /\ pc = "call_get_token_holders"
    /\ total_wbtc_per_cycle \in Budgets
    /\ \E b \in FunctionBounds :
         /\ min_token_holdings = b[1]
         /\ max_token_holdings = b[2]
    /\ \E n \in 0..MaxRecords : account_records \in [1..n -> FunctionRecords]

CallGetTokenHolders ==
    /\ pc = "call_get_token_holders"
    /\ LET r == get_token_holders(account_records)
       IN  /\ holders' = r.holders
           /\ total_supply' = r.total_supply
    /\ pc' = "call_filter_eligible_holders"
    /\ UNCHANGED <<config, bot, eligible_holders, distribution, idx, successful_sends,
                   failed_sends, total_wbtc_sent, result, summary, history>>

CallFilterEligibleHolders ==
    /\ pc = "call_filter_eligible_holders"
    /\ eligible_holders' =
          filter_eligible_holders(holders, min_token_holdings, max_token_holdings)
    /\ pc' = "call_calculate_wbtc_distribution"
    /\ UNCHANGED <<config, bot, holders, total_supply, distribution, idx, successful_sends,
                   failed_sends, total_wbtc_sent, result, summary, history>>

\* calculate_wbtc_distribution returns the list or raises ZeroDivisionError
CallCalculateWbtcDistribution ==
    /\ pc = "call_calculate_wbtc_distribution"
    /\ IF DivisionRaises(eligible_holders)
       THEN /\ pc' = "raised"
            /\ UNCHANGED distribution
       ELSE /\ distribution' =
                  calculate_wbtc_distribution(eligible_holders, total_wbtc_per_cycle)
            /\ pc' = "returned"
    /\ UNCHANGED <<config, bot, holders, total_supply, eligible_holders, idx,
                   successful_sends, failed_sends, total_wbtc_sent, result, summary,
                   history>>

NextFunctions ==
    CallGetTokenHolders \/ CallFilterEligibleHolders \/ CallCalculateWbtcDistribution

SpecFunctions == InitFunctions /\ [][NextFunctions]_vars

\* ================================================================ claims
TransferStage == {"send", "sending", "pace", "cycle_summary"}
\* The cycle has returned (or was never started)
Returned == pc \in {"sleep", "loop", "stopped"}

\* The send_wbtc_airdrop calls of the current cycle, in call order
Sends(c) == SelectSeq(c, LAMBDA x : x[1] = "send_wbtc_airdrop")

\* Sum of wbtc_amount over the first Len(outs) entries whose transfer succeeded
RECURSIVE SentOver(_, _)
SentOver(dist, outs) ==
    IF outs = <<>> THEN Zero
    ELSE LET rest == SentOver(Tail(dist), Tail(outs))
         IN  IF Head(outs) THEN RatAdd(Head(dist).wbtc_amount, rest) ELSE rest

\* C1: a failed transfer never aborts the cycle.  During the transfer loop
\* every returned attempt is counted exactly once as a success or a failure;
\* when the loop has ended the two counters add up to the length of the
\* distribution list; and every cycle that calculated a distribution and
\* returned, returned the success dict with successful + failed equal to the
\* number of entries, whatever the transfers returned.
C1_FailureNeverAborts ==
    /\ pc \in TransferStage => successful_sends + failed_sends = Len(outcomes)
    /\ pc = "cycle_summary" => successful_sends + failed_sends = Len(distribution)
    /\ (Returned /\ plan # <<>> /\ result # NoResult) =>
          /\ result.error = ""
          /\ result.successful + result.failed = Len(plan)
          /\ Len(outcomes) = Len(plan)

\* A cycle whose first transfer failed and whose second succeeded
C1_Witness ==
    /\ pc = "cycle_summary"
    /\ Len(distribution) = 2
    /\ outcomes = <<FALSE, TRUE>>
    /\ failed_sends = 1
    /\ successful_sends = 1

\* C2: the transfer capability is called once per distribution entry, in the
\* order of the list (descending token_amount), never twice for an entry, and
\* a call starts only when the previous one has returned: at most one call is
\* in flight, and the number of calls started is the number returned plus the
\* one in flight.
C2_OneAtATimeInOrder ==
    LET sent == Sends(calls)
    IN  /\ in_flight \in {0, 1}
        /\ in_flight = 1 <=> pc = "sending"
        /\ Len(sent) <= Len(plan)
        /\ \A i \in 1..Len(sent) : sent[i][2] = plan[i].wallet
        /\ \A i, j \in 1..Len(plan) : i < j =>
              /\ plan[i].wallet # plan[j].wallet
              /\ plan[i].token_amount >= plan[j].token_amount
        /\ exit_reason # "interrupt" => Len(sent) = Len(outcomes) + in_flight
        /\ (Returned /\ result.error = "") => Len(sent) = Len(plan)

\* Two entries that the sort put in the opposite order of the holder scan,
\* both attempted
C2_Witness ==
    /\ pc = "cycle_summary"
    /\ Len(plan) = 2
    /\ plan[1].token_amount > plan[2].token_amount
    /\ holders[1][1] = plan[2].wallet
    /\ Sends(calls) = <<<<"send_wbtc_airdrop", plan[1].wallet>>,
                        <<"send_wbtc_airdrop", plan[2].wallet>>>>

\* C3: total_sent is the sum of the allocated amounts of exactly the entries
\* whose transfer succeeded; it never exceeds the sum over the whole list, and
\* at the end of the loop it equals that sum only if no transfer failed.  The
\* returned dict carries the same total.
C3_TotalSent ==
    /\ pc \in TransferStage =>
          /\ total_wbtc_sent = SentOver(distribution, outcomes)
          /\ RatLeq(total_wbtc_sent, SumAllocated(distribution))
          /\ (pc = "cycle_summary" /\ total_wbtc_sent = SumAllocated(distribution))
                => failed_sends = 0
    /\ (Returned /\ result.error = "") =>
          /\ result.total_wbtc_sent = SentOver(plan, outcomes)
          /\ RatLeq(result.total_wbtc_sent, SumAllocated(plan))
          /\ result.total_wbtc_sent = SumAllocated(plan) => result.failed = 0

\* One transfer sent and one failed: the total is positive and below the
\* allocation
C3_Witness ==
    /\ pc = "cycle_summary"
    /\ successful_sends = 1
    /\ failed_sends = 1
    /\ RatLt(Zero, total_wbtc_sent)
    /\ RatLt(total_wbtc_sent, SumAllocated(distribution))

\* The spec's scenario after the cycle returned: eligible {A:1000, B:3000},
\* budget 0.2, B's transfer failed and A's succeeded
C4_Scenario ==
    /\ Returned
    /\ total_wbtc_per_cycle = 20
    /\ Len(plan) = 2
    /\ plan[1].wallet = "B" /\ plan[1].token_amount = 6
    /\ plan[2].wallet = "A" /\ plan[2].token_amount = 2
    /\ outcomes = <<FALSE, TRUE>>
    /\ result # NoResult

\* C4: a cycle that calculated a distribution and returned reports success
\* whatever the transfers returned, also when none succeeded; in the spec's
\* scenario it returns successful = 1, failed = 1, total_wbtc_sent = 0.05
\* (5 units) with success.
C4_ExecutionStageMeansSuccess ==
    /\ (Returned /\ plan # <<>> /\ result # NoResult) => result.success
    /\ C4_Scenario =>
          /\ result.success
          /\ result.successful = 1
          /\ result.failed = 1
          /\ result.total_wbtc_sent = <<5, 1>>
          /\ SumAllocated(plan) = <<20, 1>>

\* A returned cycle in which every transfer failed
C4_Witness ==
    /\ pc = "sleep"
    /\ Len(plan) = 2
    /\ outcomes = <<FALSE, FALSE>>
    /\ result.success
    /\ result.successful = 0
    /\ result.failed = 2

ScanCall == <<"get_token_holders", "">>
AfterScan == {"filter", "calculate"} \cup TransferStage
AfterFilter == {"calculate"} \cup TransferStage

\* C5: when the scan fails (no usable RPC response) or yields an empty
\* mapping, execute_airdrop_cycle returns a failure dict straight after the
\* get_token_holders call: the filter, the calculation and the transfer loop
\* are entered only with a non-empty mapping, and a cycle that reports a scan
\* failure made no other call and no transfer attempt.
C5_ScanFailureEndsCycle ==
    /\ [][(pc = "scan" /\ pc' # "scan" /\ holders' = <<>> /\ exit_reason' # "interrupt")
            => /\ pc' = "sleep"
               /\ result' # NoResult
               /\ ~result'.success
               /\ calls' = <<ScanCall>>]_vars
    /\ [](pc \in AfterScan => holders # <<>>)
    /\ [](result.error \in {"ValueError", "No token holders found"}
            => /\ ~result.success
               /\ calls = <<ScanCall>>
               /\ plan = <<>>
               /\ outcomes = <<>>
               /\ in_flight = 0)

\* The RPC request failed: get_token_holders returned a bare {} and the cycle
\* reported the failure
C5_Witness ==
    /\ pc = "sleep"
    /\ result.error = "ValueError"
    /\ calls = <<ScanCall>>

\* C6: when filtering a non-empty holder mapping leaves no eligible wallet,
\* the cycle returns a failure dict straight after the filter; the calculation
\* and the transfer loop are entered only with a non-empty eligible mapping,
\* and the cycle made no transfer attempt (successful = failed = 0).
C6_NoEligibleEndsCycle ==
    /\ [][(/\ pc = "filter" /\ pc' # "filter" /\ holders # <<>>
           /\ filter_eligible_holders(holders, min_token_holdings, max_token_holdings) = <<>>)
            => /\ pc' = "sleep"
               /\ result' # NoResult
               /\ ~result'.success
               /\ Sends(calls') = <<>>]_vars
    /\ [](pc \in AfterFilter => eligible_holders # <<>>)
    /\ [](result.error = "No eligible holders found"
            => /\ ~result.success
               /\ result.successful = 0 /\ result.failed = 0
               /\ Len(calls) = 2 /\ Sends(calls) = <<>>
               /\ plan = <<>>
               /\ outcomes = <<>>
               /\ in_flight = 0)

\* A cycle that scanned holders, found none eligible and reported failure
C6_Witness ==
    /\ pc = "sleep"
    /\ result.error = "No eligible holders found"
    /\ Sends(calls) = <<>>

StageFailure ==
    /\ pc \in {"scan", "filter", "calculate"}
    /\ pc' \notin {"scan", "filter", "calculate"} \cup TransferStage
    /\ exit_reason' # "interrupt"

\* C8: a cycle that fails at a pipeline stage ends only that cycle.  The
\* failure leaves the running flag as it was and takes the loop to its sleep;
\* the sleep leads back to the loop test; and unless stop() was called or the
\* coroutine was interrupted, a failed cycle number n is followed by cycle
\* n + 1.
C8_FailedCycleIsFollowed ==
    /\ [][StageFailure => (pc' = "sleep" /\ ~result'.success /\ is_running' = is_running)]_vars
    /\ [][(pc = "sleep" /\ pc' \notin {"sleep", "stopped"}) => pc' = "loop"]_vars
    /\ \A n \in 1..(MaxCycles - 1) :
         (pc = "sleep" /\ result # NoResult /\ ~result.success /\ cycle_count = n)
            ~> (cycle_count = n + 1 \/ stop_phase # "none" \/ exit_reason = "interrupt")

\* After a failed first cycle the second cycle has started, with no stop
\* requested
C8_Witness ==
    /\ cycle_count = 2
    /\ pc = "scan"
    /\ prev_result = "failure"
    /\ is_running
    /\ stop_phase = "none"

\* C9: stop() during a cycle does not interrupt it.  With the flag cleared
\* the cycle does not jump to the finally block and the transfer loop still
\* moves to the next entry; the loop ends only when every entry was attempted;
\* and when the loop test then ends the scheduler, the cycle's result is
\* recorded and its total is part of the cumulative total of the summary.
C9_StopDoesNotInterruptCycle ==
    /\ [][(InCycle /\ ~is_running /\ exit_reason' # "interrupt")
            => /\ pc' # "stopped"
               /\ (pc = "pace" /\ pc' # "pace" /\ idx < Len(distribution))
                     => (pc' = "send" /\ idx' = idx + 1)]_vars
    /\ [](pc = "cycle_summary" => Len(outcomes) = Len(distribution))
    /\ []((exit_reason = "stop" /\ stop_phase \in {"transfer", "cycle"})
            => /\ result # NoResult
               /\ plan # <<>> =>
                    /\ result.success
                    /\ Len(outcomes) = Len(plan)
                    /\ total_wbtc_distributed = RatAdd(base_total, result.total_wbtc_sent)
                    /\ summary.total = total_wbtc_distributed)

\* stop() was called while an entry was still to be attempted; both entries
\* were attempted, the cycle returned and the scheduler then stopped
C9_Witness ==
    /\ pc = "stopped"
    /\ exit_reason = "stop"
    /\ stop_phase = "transfer"
    /\ Len(plan) = 2
    /\ outcomes = <<TRUE, TRUE>>
    /\ result.successful = 2
    /\ summary.total = RatAdd(base_total, result.total_wbtc_sent)

SchedState ==
    IF pc = "idle" THEN "Idle" ELSE IF pc = "stopped" THEN "Stopped" ELSE "Running"

\* C10: the scheduler is Idle, Running or Stopped.  Idle is left only to
\* Running, by the start, which sets the flag; Running is left only to
\* Stopped, and only after stop() was called or on an interruption; cycles
\* begin only while Running; once Stopped nothing of the bot changes any more.
C10_ThreeStateMachine ==
    [][/\ SchedState = "Idle" =>
            /\ SchedState' \in {"Idle", "Running"}
            /\ SchedState' = "Running" => (is_running' /\ pc' = "loop")
       /\ SchedState = "Running" =>
            /\ SchedState' \in {"Running", "Stopped"}
            /\ SchedState' = "Stopped" =>
                 /\ ~is_running'
                 /\ \/ exit_reason' = "stop" /\ stop_phase # "none"
                    \/ exit_reason' = "interrupt"
       /\ SchedState = "Stopped" =>
            /\ SchedState' = "Stopped"
            /\ UNCHANGED <<bot, result, summary, calls, outcomes>>
       /\ cycle_count' # cycle_count => (SchedState = "Running" /\ SchedState' = "Running")
      ]_vars

\* The scheduler ran a cycle and was then stopped by stop()
C10_Witness ==
    /\ SchedState = "Stopped"
    /\ exit_reason = "stop"
    /\ cycle_count >= 1
    /\ summary.emitted = 1

\* Every cycle that was started has returned its dict: the coroutine is
\* between cycles, or it stopped there
AllCyclesReturned ==
    \/ pc \in {"sleep", "loop"}
    \/ pc = "stopped" /\ (result # NoResult \/ cycle_count = 0)

\* C11: after N cycles that returned dicts with total_wbtc_sent s1..sN (a
\* failure dict counting 0), total_wbtc_distributed is s1 + ... + sN and
\* cycle_count is N; a final summary emitted then reports N cycles, that
\* total, and for N >= 1 the average (s1 + ... + sN) / N.
C11_CumulativeStatistics ==
    /\ AllCyclesReturned =>
          /\ total_wbtc_distributed = sent_sum
          /\ cycle_count = completed
    /\ (AllCyclesReturned /\ pc = "stopped") =>
          /\ summary.emitted = 1
          /\ summary.cycles = completed
          /\ summary.total = sent_sum
          /\ completed >= 1 => summary.average = Rat(sent_sum[1], sent_sum[2] * completed)

\* Two cycles that both sent something, then the final summary
C11_Witness ==
    /\ pc = "stopped"
    /\ exit_reason = "stop"
    /\ completed = 2
    /\ base_total # Zero
    /\ result.total_wbtc_sent # Zero
    /\ summary.total = RatAdd(base_total, result.total_wbtc_sent)
    /\ summary.average = Rat(summary.total[1], summary.total[2] * 2)

\* C12 as stated: while a cycle is in flight cycle_count is the number of
\* completed cycles, the increment coming after the fold.
C12_CountedAfterTheCycle == InCycle => cycle_count = completed

\* C12, amended: cycle_count is incremented once per iteration, by the first
\* statement of execute_airdrop_cycle, before the pipeline runs, so while a
\* cycle is in flight it is the number of completed cycles plus one and
\* between cycles it is the number of completed cycles.  The cycle's total is
\* folded into total_wbtc_distributed after the transfer loop, on the step
\* that returns to the scheduler's sleep; counter and cumulative total change
\* at no other point.
C12_CountedAtCycleStart ==
    /\ [](InCycle => cycle_count = completed + 1)
    /\ [](pc \in {"sleep", "loop"} => cycle_count = completed)
    /\ [][cycle_count' # cycle_count
            => /\ pc = "loop" /\ pc' = "scan"
               /\ cycle_count' = cycle_count + 1
               /\ total_wbtc_distributed' = total_wbtc_distributed]_vars
    /\ [][total_wbtc_distributed' # total_wbtc_distributed
            => /\ pc = "cycle_summary" /\ pc' = "sleep"
               /\ total_wbtc_distributed' = RatAdd(total_wbtc_distributed, total_wbtc_sent)
               /\ cycle_count' = cycle_count]_vars

\* The second cycle is in its transfer loop, after a first cycle that sent
\* something
C12_Witness ==
    /\ pc = "sending"
    /\ cycle_count = 2
    /\ completed = 1
    /\ total_wbtc_distributed # Zero

\* get_token_holders has returned
ScanReturned == pc # "call_get_token_holders"

\* Sum of the amounts of the records at the positions in S
RECURSIVE SumAmounts(_, _)
SumAmounts(recs, S) ==
    IF S = {} THEN 0
    ELSE LET i == CHOOSE x \in S : TRUE
         IN  recs[i].amount[1] + SumAmounts(recs, S \ {i})

\* recs without its i-th record
Without(recs, i) == SubSeq(recs, 1, i - 1) \o SubSeq(recs, i + 1, Len(recs))

\* C13: for every record sequence, get_token_holders returns one key per
\* wallet that owns a non-skipped record, each with the sum of that wallet's
\* non-skipped amounts; total_supply is the sum of all non-skipped amounts
\* and the sum of the mapping's balances; and a record with a zero or
\* unparsable amount or without owner changes neither the mapping nor the
\* total (the result is what it is without that record).
C13_HoldersAggregate ==
    ScanReturned =>
        LET recs == account_records
            kept == {i \in 1..Len(recs) : ~Skipped(recs[i])}
        IN  /\ Keys(holders) = {recs[i].owner : i \in kept}
            /\ Cardinality(Keys(holders)) = Len(holders)
            /\ \A k \in 1..Len(holders) :
                  holders[k][2] =
                      SumAmounts(recs, {i \in kept : recs[i].owner = holders[k][1]})
            /\ total_supply = SumAmounts(recs, kept)
            /\ total_supply = SumValues(holders)
            /\ \A i \in (1..Len(recs)) \ kept :
                  get_token_holders(Without(recs, i)) =
                      [holders |-> holders, total_supply |-> total_supply]

\* Two records of one wallet were added up
C13_Witness ==
    /\ ScanReturned
    /\ Len(account_records) = 2
    /\ account_records[1].owner = account_records[2].owner
    /\ \A i \in 1..2 : ~Skipped(account_records[i])
    /\ Len(holders) = 1
    /\ holders[1][2] = 8
    /\ total_supply = 8

\* A record with amount null next to a counted one
C13_SkipWitness ==
    /\ ScanReturned
    /\ Len(account_records) = 2
    /\ account_records[1].amount = Null
    /\ holders = <<<<"B", 6>>>>

\* filter_eligible_holders has returned
FilterReturned == pc \in {"call_calculate_wbtc_distribution", "raised", "returned"}

\* C14: with min <= max, filter_eligible_holders keeps a wallet, with its
\* balance, iff min <= balance <= max (both bounds inclusive) and returns
\* nothing else; no wallet is both below min and above max, and the eligible
\* count plus excluded_small plus excluded_large is the number of holders.
C14_FilterPartitions ==
    (FilterReturned /\ min_token_holdings <= max_token_holdings) =>
        LET lo == min_token_holdings
            hi == max_token_holdings
            kept == {eligible_holders[k] : k \in 1..Len(eligible_holders)}
        IN  /\ \A i \in 1..Len(holders) :
                  holders[i] \in kept <=> (lo <= holders[i][2] /\ holders[i][2] <= hi)
            /\ kept \subseteq {holders[i] : i \in 1..Len(holders)}
            /\ Cardinality(Keys(eligible_holders)) = Len(eligible_holders)
            /\ \A i \in 1..Len(holders) : ~(holders[i][2] < lo /\ holders[i][2] > hi)
            /\ Len(eligible_holders) + excluded_small(holders, lo)
                  + excluded_large(holders, hi) = Len(holders)

\* One wallet exactly at the minimum and one exactly at the maximum, both kept
C14_Witness ==
    /\ FilterReturned
    /\ min_token_holdings < max_token_holdings
    /\ Len(holders) = 2
    /\ holders[1][2] = min_token_holdings
    /\ holders[2][2] = max_token_holdings
    /\ eligible_holders = holders

RECURSIVE SumPercentage(_)
SumPercentage(dist) ==
    IF dist = <<>> THEN Zero
    ELSE RatAdd(Head(dist).percentage, SumPercentage(Tail(dist)))

\* C15: for a non-empty eligible mapping with positive total balance and a
\* positive budget B, calculate_wbtc_distribution returns exactly one entry
\* per eligible wallet, carrying the wallet's balance, wbtc_amount =
\* balance / total * B and percentage = balance / total * 100, nothing being
\* rounded or redistributed; the amounts sum to B and the percentages to 100.
\* Eligible {A:1000, B:3000} with budget 0.2 gives [B: 75%, 0.15], [A: 25%,
\* 0.05] (6, 2 and 20 in the model's units).
C15_ProportionalShares ==
    (/\ pc = "returned"
     /\ eligible_holders # <<>>
     /\ SumValues(eligible_holders) > 0
     /\ total_wbtc_per_cycle > 0) =>
        LET total == SumValues(eligible_holders)
            B == total_wbtc_per_cycle
        IN  /\ Len(distribution) = Len(eligible_holders)
            /\ \A k \in 1..Len(eligible_holders) :
                  Cardinality({i \in 1..Len(distribution) :
                      distribution[i].wallet = eligible_holders[k][1]}) = 1
            /\ \A i \in 1..Len(distribution) :
                  \E k \in 1..Len(eligible_holders) :
                      /\ distribution[i].wallet = eligible_holders[k][1]
                      /\ distribution[i].token_amount = eligible_holders[k][2]
                      /\ distribution[i].wbtc_amount[1] * total =
                            eligible_holders[k][2] * B * distribution[i].wbtc_amount[2]
                      /\ distribution[i].percentage[1] * total =
                            eligible_holders[k][2] * 100 * distribution[i].percentage[2]
            /\ SumAllocated(distribution) = <<B, 1>>
            /\ SumPercentage(distribution) = <<100, 1>>
            /\ (eligible_holders = <<<<"A", 2>>, <<"B", 6>>>> /\ B = 20) =>
                  distribution =
                    <<[wallet |-> "B", token_amount |-> 6, percentage |-> <<75, 1>>,
                       wbtc_amount |-> <<15, 1>>],
                      [wallet |-> "A", token_amount |-> 2, percentage |-> <<25, 1>>,
                       wbtc_amount |-> <<5, 1>>]>>

\* The spec's scenario: A with 1000 and B with 3000 tokens, budget 0.2
C15_Witness ==
    /\ pc = "returned"
    /\ eligible_holders = <<<<"A", 2>>, <<"B", 6>>>>
    /\ total_wbtc_per_cycle = 20
    /\ Len(distribution) = 2
    /\ distribution[1].wbtc_amount = <<15, 1>>
    /\ distribution[2].wbtc_amount = <<5, 1>>

\* Position of wallet w in the eligible mapping (insertion order)
Position(eligible, w) == CHOOSE k \in 1..Len(eligible) : eligible[k][1] = w

\* C16: the list calculate_wbtc_distribution returns is sorted by descending
\* token_amount, and entries of equal token_amount are in the order in which
\* their wallets stand in the eligible mapping.
C16_SortedStable ==
    pc = "returned" =>
        \A i, j \in 1..Len(distribution) : i < j =>
            /\ distribution[i].token_amount >= distribution[j].token_amount
            /\ distribution[i].token_amount = distribution[j].token_amount =>
                  Position(eligible_holders, distribution[i].wallet)
                      < Position(eligible_holders, distribution[j].wallet)

\* Two wallets of equal balance, B met before A: B stays first
C16_Witness ==
    /\ pc = "returned"
    /\ Len(distribution) = 2
    /\ eligible_holders[1][1] = "B"
    /\ distribution[1].wallet = "B"
    /\ distribution[2].wallet = "A"
    /\ distribution[1].token_amount = distribution[2].token_amount

\* The sender cannot be used: the key does not decode, or the reported SOL
\* balance is not positive, or the reported WBTC balance is below the budget
SenderUnusable ==
    \/ private_key = "undecodable"
    \/ balance_sol # Null /\ balance_sol[1] <= 0
    \/ wbtc_balance < total_wbtc_per_cycle

\* C17: when the sender cannot be used, main() returns before
\* run_continuous_airdrop is called: the running flag is never set,
\* cycle_count stays 0, no pipeline call and no transfer is made and no
\* summary is logged.
C17_StartupAborts ==
    SenderUnusable =>
        /\ pc \in {"main", "aborted"}
        /\ ~is_running
        /\ cycle_count = 0
        /\ calls = <<>>
        /\ in_flight = 0
        /\ summary = NoSummary

\* The key decodes and the sender has SOL, but one unit of WBTC is missing
C17_Witness ==
    /\ pc = "aborted"
    /\ private_key = "valid"
    /\ balance_sol = <<1>>
    /\ wbtc_balance = 19
    /\ total_wbtc_per_cycle = 20

StopRequested == stop_phase # "none"

\* C18: once stop() has cleared the flag of a running scheduler no cycle is
\* started any more: cycle_count keeps the value it had at the call, in a
\* cycle or in the inter-cycle sleep alike, and the final summary reports
\* that value.
C18_NoCycleAfterStop ==
    /\ [][StopRequested => ~(pc = "loop" /\ pc' = "scan")]_vars
    /\ [](StopRequested => (~is_running /\ cycle_count = stop_count))
    /\ []((StopRequested /\ pc = "stopped") => summary.cycles = stop_count)

\* stop() came during the first cycle; the cycle returned and the summary
\* reports one cycle
C18_Witness ==
    /\ pc = "stopped"
    /\ exit_reason = "stop"
    /\ stop_phase \in {"transfer", "cycle"}
    /\ stop_count = 1
    /\ result # NoResult
    /\ summary.cycles = 1

\* stop() came during the sleep after the first cycle
C18_SleepWitness ==
    /\ pc = "sleep"
    /\ stop_phase = "between"
    /\ ~is_running
    /\ stop_count = 1

\* C19: when stop() was called on a running scheduler and every call and
\* sleep of the coroutine returns, the scheduler reaches Stopped with the flag
\* clear and the final summary logged, once.  The loop is left by its test
\* only, which is reached from the inter-cycle sleep, which follows the return
\* of the cycle: a cycle in flight at the call is finished first.  The summary
\* reports total_wbtc_distributed / max(cycle_count, 1).
C19_StopReachesSummary ==
    /\ StopRequested ~> (pc = "stopped" /\ ~is_running /\ summary.emitted = 1)
    /\ [](summary.emitted = IF pc = "stopped" THEN 1 ELSE 0)
    /\ [][summary' # summary => (pc # "stopped" /\ pc' = "stopped")]_vars
    /\ [][(pc # "stopped" /\ pc' = "stopped" /\ exit_reason' = "stop") => pc = "loop"]_vars
    /\ [][(pc # "loop" /\ pc' = "loop") => pc \in {"idle", "sleep"}]_vars
    /\ [][(pc # "sleep" /\ pc' = "sleep") => (InCycle /\ result' # NoResult)]_vars
    /\ []((exit_reason = "stop" /\ stop_phase \in {"transfer", "cycle"})
            => (result # NoResult /\ completed = cycle_count))
    /\ [](pc = "stopped" =>
            /\ summary.cycles = cycle_count
            /\ summary.total = total_wbtc_distributed
            /\ summary.average[1] * summary.total[2] * Max(cycle_count, 1)
                  = summary.total[1] * summary.average[2])

\* stop() was called, two cycles had run and something was sent: the summary
\* reports half the total as the average
C19_Witness ==
    /\ pc = "stopped"
    /\ exit_reason = "stop"
    /\ StopRequested
    /\ summary.emitted = 1
    /\ summary.cycles = 2
    /\ summary.total # Zero
    /\ summary.average = Rat(summary.total[1], summary.total[2] * 2)

\* stop() came before the first cycle: the average is 0 / max(0, 1)
C19_NoCycleWitness ==
    /\ pc = "stopped"
    /\ exit_reason = "stop"
    /\ summary.cycles = 0
    /\ summary.average = Zero

\* The cycle that returned last reported failure
LastCycleFailed == AllCyclesReturned /\ result # NoResult /\ ~result.success

\* C20: a cycle that returns a failure dict (scan error, no holders, no
\* eligible holders, zero supply or another caught exception) leaves
\* total_wbtc_distributed as it was when the cycle began, yet it was counted:
\* cycle_count went up by exactly one when it started and by nothing else, so
\* cycles are numbered 1, 2, 3, ... whether they fail or not, and the final
\* summary divides by a cycle_count that includes the failed cycles.
C20_FailedCycleIsCounted ==
    /\ [](LastCycleFailed =>
            /\ total_wbtc_distributed = base_total
            /\ result.total_wbtc_sent = Zero
            /\ cycle_count = completed)
    /\ [][(InCycle /\ pc' = "sleep" /\ ~result'.success)
            => /\ total_wbtc_distributed' = total_wbtc_distributed
               /\ cycle_count' = cycle_count]_vars
    /\ [][(pc = "loop" /\ pc' = "scan") => cycle_count' = cycle_count + 1]_vars
    /\ [][cycle_count' # cycle_count => (pc = "loop" /\ pc' = "scan")]_vars
    /\ [](InCycle => cycle_count = completed + 1)
    /\ []((pc \in {"sleep", "loop"} /\ result.success) => result.cycle = cycle_count)
    /\ []((LastCycleFailed /\ pc = "stopped") =>
            /\ summary.cycles = completed
            /\ summary.average[1] * summary.total[2] * Max(completed, 1)
                  = summary.total[1] * summary.average[2])

\* The first cycle sent something, the second failed: the summary divides
\* the first cycle's total by two
C20_Witness ==
    /\ pc = "stopped"
    /\ LastCycleFailed
    /\ completed = 2
    /\ summary.total # Zero
    /\ summary.cycles = 2
    /\ summary.average = Rat(summary.total[1], summary.total[2] * 2)

\* C21: whenever the final summary is logged, the cumulative total it reports
\* is the sum of wbtc_amount over every transfer that returned success in any
\* cycle since the start, also when the loop was left by an interruption
\* raised in a transfer call or a pacing delay in the middle of the transfer
\* loop.
C21_SummaryCountsEveryTransfer ==
    summary.emitted = 1 => summary.total = transferred

\* What the code does instead: the summary misses exactly the successful
\* transfers of a cycle that was cut short, whose total_wbtc_sent never
\* reached the fold
C21_LossIsTheCutCycle ==
    summary.emitted = 1 =>
        transferred =
            RatAdd(summary.total,
                   IF AllCyclesReturned THEN Zero ELSE SentOver(plan, outcomes))

\* An interruption in the pacing delay after a transfer that succeeded: the
\* summary reports less than was transferred
C21_LostTransfer ==
    /\ pc = "stopped"
    /\ exit_reason = "interrupt"
    /\ ~AllCyclesReturned
    /\ outcomes = <<TRUE>>
    /\ RatLt(summary.total, transferred)

====
